---------------------------- MODULE Spec2Model ----------------------------
(***************************************************************************)
(* Wahaha membership sync: a CSV roster published by a spreadsheet is      *)
(* reconciled with a Notion database and the members that have a phone     *)
(* are mailed as a .vcf bundle.  The model follows the latest variant of   *)
(* the service (src/unnamed/part_000, lines 170-573).                      *)
(*                                                                         *)
(* JavaScript strings are modelled as sequences of one-character strings,  *)
(* so that trimming, splitting, prefix tests and concatenation are         *)
(* computed as the code computes them.                                     *)
(***************************************************************************)
EXTENDS Integers, Sequences, FiniteSets, TLC

(***************************************************************************)
(* String helpers (String.prototype methods used by the code).             *)
(***************************************************************************)
Digits == {"0", "1", "2", "3", "4", "5", "6", "7", "8", "9"}

Whitespace == {" ", "\t", "\r", "\n"}

UpperAlphabet ==
  << "A", "B", "C", "D", "E", "F", "G", "H", "I", "J", "K", "L", "M",
     "N", "O", "P", "Q", "R", "S", "T", "U", "V", "W", "X", "Y", "Z" >>

LowerAlphabet ==
  << "a", "b", "c", "d", "e", "f", "g", "h", "i", "j", "k", "l", "m",
     "n", "o", "p", "q", "r", "s", "t", "u", "v", "w", "x", "y", "z" >>

\* c.toLowerCase() for one character
LowerChar(c) ==
  IF \E k \in 1..26 : UpperAlphabet[k] = c
  THEN LowerAlphabet[CHOOSE k \in 1..26 : UpperAlphabet[k] = c]
  ELSE c

\* s.toLowerCase()
toLowerCase(s) == [k \in 1..Len(s) |-> LowerChar(s[k])]

\* s.startsWith(p)
startsWith(s, p) == Len(s) >= Len(p) /\ SubSeq(s, 1, Len(p)) = p

\* s.includes(p)
includes(s, p) ==
  \E k \in 0..(Len(s) - Len(p)) : SubSeq(s, k + 1, k + Len(p)) = p

\* s.substring(n)
substring(s, n) == SubSeq(s, n + 1, Len(s))

\* s.trim()
trim(s) ==
  LET kept == {k \in 1..Len(s) : s[k] \notin Whitespace}
      first == CHOOSE k \in kept : \A j \in kept : k <= j
      last == CHOOSE k \in kept : \A j \in kept : j <= k
  IN  IF kept = {} THEN << >> ELSE SubSeq(s, first, last)

IsDigitOrPlus(c) == c \in Digits \cup {"+"}

\* s.replace(/[^\d+]/g, '')
KeepDigitsPlus(s) == SelectSeq(s, IsDigitOrPlus)

\* text.split(sep) for a one-character separator
split(s, sep) ==
  LET seps == {k \in 1..Len(s) : s[k] = sep}
      n == Cardinality(seps)
      pos(j) == IF j = 0 THEN 0
                ELSE IF j = n + 1 THEN Len(s) + 1
                ELSE CHOOSE p \in seps : Cardinality({q \in seps : q <= p}) = j
  IN  [j \in 1..(n + 1) |-> SubSeq(s, pos(j - 1) + 1, pos(j) - 1)]

\* parts.join(sep)
RECURSIVE join(_, _)
join(parts, sep) ==
  IF parts = << >> THEN << >>
  ELSE IF Len(parts) = 1 THEN parts[1]
       ELSE parts[1] \o sep \o join(Tail(parts), sep)

\* the decimal text of a natural number, as `${i}` prints it
DigitChar(d) == << "0", "1", "2", "3", "4", "5", "6", "7", "8", "9" >>[d + 1]

RECURSIVE DecimalString(_)
DecimalString(n) ==
  IF n < 10 THEN << DigitChar(n) >>
  ELSE DecimalString(n \div 10) \o << DigitChar(n % 10) >>

(***************************************************************************)
(* parseCSV: split the text into lines, drop blank lines, tokenize each    *)
(* line honouring double quotes, keep the rows that have more than one     *)
(* field and some field that is neither empty nor the two characters "".   *)
(***************************************************************************)
RECURSIVE ParseLine(_, _, _, _, _)
ParseLine(line, at, fields, currentField, inQuotes) ==
  IF at > Len(line) THEN Append(fields, trim(currentField))
  ELSE
    LET char == line[at]
        hasNext == at + 1 <= Len(line)
    IN  IF char = "\""
        THEN IF inQuotes /\ hasNext /\ line[at + 1] = "\""
             THEN ParseLine(line, at + 2, fields, Append(currentField, "\""), inQuotes)
             ELSE ParseLine(line, at + 1, fields, currentField, ~inQuotes)
        ELSE IF char = "," /\ ~inQuotes
             THEN ParseLine(line, at + 1, Append(fields, trim(currentField)), << >>, inQuotes)
             ELSE ParseLine(line, at + 1, fields, Append(currentField, char), inQuotes)

\* a parser that splits at every comma
SplitAtEveryComma(line) ==
  LET parts == split(line, ",")
  IN  [k \in 1..Len(parts) |-> trim(parts[k])]

parseCSVLine(line) == ParseLine(line, 1, << >>, << >>, FALSE)

NonBlankLine(line) == trim(line) # << >>

KeptRow(fields) ==
  /\ Len(fields) > 1
  /\ \E k \in 1..Len(fields) : fields[k] # << >> /\ fields[k] # << "\"", "\"" >>

parseCSV(text) ==
  LET lines == SelectSeq(split(text, "\n"), NonBlankLine)
      parsed == [k \in 1..Len(lines) |-> parseCSVLine(lines[k])]
  IN  SelectSeq(parsed, KeptRow)

(***************************************************************************)
(* cleanPhoneNumber                                                        *)
(***************************************************************************)
AllDigits(s) == \A k \in 1..Len(s) : s[k] \in Digits

\* /^\+62\d{8,13}$/.test(s)
IsIndonesian(s) ==
  /\ startsWith(s, << "+", "6", "2" >>)
  /\ Len(s) - 3 >= 8
  /\ Len(s) - 3 <= 13
  /\ AllDigits(substring(s, 3))

cleanPhoneNumber(phone) ==
  IF phone = << >> \/ trim(phone) = << >> THEN << >>
  ELSE
    LET stripped == KeepDigitsPlus(phone)
        cleaned ==
          IF startsWith(stripped, << "0" >>)
          THEN << "+", "6", "2" >> \o substring(stripped, 1)
          ELSE IF startsWith(stripped, << "6", "2" >>) /\ ~startsWith(stripped, << "+" >>)
               THEN << "+" >> \o stripped
               ELSE IF startsWith(stripped, << "8" >>) /\ ~startsWith(stripped, << "+" >>)
                    THEN << "+", "6", "2" >> \o stripped
                    ELSE stripped
        fixed == << "+", "6", "2" >> \o cleaned
    IN  IF stripped = << >> THEN << >>
        ELSE IF IsIndonesian(cleaned) THEN cleaned
        ELSE IF Len(cleaned) >= 10 /\ Len(cleaned) <= 13
                /\ ~startsWith(cleaned, << "+" >>) /\ IsIndonesian(fixed)
             THEN fixed
             ELSE << >>

(***************************************************************************)
(* Member record builder (sync, lines 334-400).  Column numbers are the    *)
(* code's zero-based indices, -1 when no header cell matches.              *)
(***************************************************************************)
\* header.findIndex(h => h && h.toLowerCase().includes(pattern.toLowerCase()))
findIndex(header, pattern) ==
  LET hit(k) == /\ header[k] # << >>
                /\ includes(toLowerCase(header[k]), toLowerCase(pattern))
  IN  IF \E k \in 1..Len(header) : hit(k)
      THEN (CHOOSE k \in 1..Len(header) : hit(k) /\ \A j \in 1..(k - 1) : ~hit(j)) - 1
      ELSE -1

RECURSIVE findColumn(_, _)
findColumn(header, patterns) ==
  IF patterns = << >> THEN -1
  ELSE LET index == findIndex(header, Head(patterns))
       IN  IF index # -1 THEN index ELSE findColumn(header, Tail(patterns))

IdPatterns ==
  << << "m", "e", "m", "b", "e", "r", "s", "h", "i", "p", "i", "d" >>,
     << "m", "e", "m", "b", "e", "r" >>,
     << "i", "d" >> >>

TitlePatterns ==
  << << "m", "t", "i", "t", "l", "e" >>, << "t", "i", "t", "l", "e" >> >>

FirstNamePatterns ==
  << << "f", "i", "r", "s", "t", "n", "a", "m", "e" >>,
     << "f", "i", "r", "s", "t" >>,
     << "n", "a", "m", "e" >> >>

LastNamePatterns ==
  << << "l", "a", "s", "t", "n", "a", "m", "e" >>, << "l", "a", "s", "t" >> >>

PhonePatterns ==
  << << "t", "e", "l", "e", "p", "h", "o", "n", "e" >>,
     << "p", "h", "o", "n", "e" >>,
     << "m", "o", "b", "i", "l", "e" >>,
     << "m", "m", "o", "b", "p", "h", "o", "n", "e" >> >>

ColumnMapping(header) ==
  [ id        |-> findColumn(header, IdPatterns),
    title     |-> findColumn(header, TitlePatterns),
    firstName |-> findColumn(header, FirstNamePatterns),
    lastName  |-> findColumn(header, LastNamePatterns),
    phone     |-> findColumn(header, PhonePatterns) ]

\* cols[c]?.trim() for a zero-based column c; undefined is rendered as ''
Cell(cols, c) == IF c >= 0 /\ c < Len(cols) THEN trim(cols[c + 1]) ELSE << >>

\* `MEM${i}`
FallbackId(n) == << "M", "E", "M" >> \o DecimalString(n)

\* col.id !== -1 && cols[col.id] ? cols[col.id].trim() : `MEM${i}`
MemberId(cols, col, n) ==
  IF col.id # -1 /\ col.id < Len(cols) /\ cols[col.id + 1] # << >>
  THEN trim(cols[col.id + 1])
  ELSE FallbackId(n)

NonEmpty(s) == s # << >>

\* [title, firstName, lastName].filter(Boolean).join(' ').trim()
FullName(cols, col) ==
  trim(join(SelectSeq(<< Cell(cols, col.title), Cell(cols, col.firstName),
                      Cell(cols, col.lastName) >>, NonEmpty), << " " >>))

\* the body of the for loop over data[n], n >= 1 (the code's i, zero-based): the records
\* pushed for the rows from n on
RECURSIVE BuildFrom(_, _, _)
BuildFrom(data, col, n) ==
  IF n + 1 > Len(data) THEN << >>
  ELSE
    LET cols == data[n + 1]
        rest == BuildFrom(data, col, n + 1)
    IN  IF Len(cols) < 4 THEN rest
        ELSE IF FullName(cols, col) = << >> THEN rest
        ELSE << [ id    |-> MemberId(cols, col, n),
                  name  |-> FullName(cols, col),
                  phone |-> cleanPhoneNumber(Cell(cols, col.phone)) ] >> \o rest

BuildRows(data) == BuildFrom(data, ColumnMapping(data[1]), 1)

(***************************************************************************)
(* Bounds and inputs of the model.                                         *)
(***************************************************************************)
\* body lines of a fetched CSV
MaxRows == 2

\* capacity of the remote database: a create succeeds only below it
MaxPages == 2

Header ==
  << "i", "d", ",", "t", "i", "t", "l", "e", ",", "f", "i", "r", "s", "t", ",",
     "l", "a", "s", "t", ",", "p", "h", "o", "n", "e" >>

\* M1,,Ann,,0812345678   a member with a phone
LineWithPhone ==
  << "M", "1", ",", ",", "A", "n", "n", ",", ",",
     "0", "8", "1", "2", "3", "4", "5", "6", "7", "8" >>

\* M1,,Ann,,   the same member with the phone column empty
LineNoPhone == << "M", "1", ",", ",", "A", "n", "n", ",", "," >>

\* ,,Bo,,0812345678   a member whose identifier column is empty
LineNoId ==
  << ",", ",", "B", "o", ",", ",",
     "0", "8", "1", "2", "3", "4", "5", "6", "7", "8" >>

\* M2,,,,0812345678   an identifier with no name part
LineNoName ==
  << "M", "2", ",", ",", ",", ",",
     "0", "8", "1", "2", "3", "4", "5", "6", "7", "8" >>

LinePool == {LineWithPhone, LineNoPhone, LineNoId, LineNoName}

BodySeqs == UNION {[1..n -> LinePool] : n \in 0..MaxRows}

\* the texts the published sheet can return: the header and up to MaxRows lines
CsvTexts == {join(<< Header >> \o body, << "\n" >>) : body \in BodySeqs}

\* the remote database before the service first runs
InitialStores ==
  { << >>,
    << [ id    |-> << "M", "1" >>,
         name  |-> << "A", "n", "n" >>,
         phone |-> << "+", "6", "2", "8", "1", "1", "1", "1", "1", "1", "1", "1" >> ] >> }

(***************************************************************************)
(* State.                                                                  *)
(***************************************************************************)
VARIABLES
  pc,           \* where the process is: boot, a step of sync, completed, fatal
  pages,        \* the Notion database: page id = position, [id, name, phone]
  propertyMap,  \* sync's propertyMap: whether a phone property was found
  csv,          \* text of the CSV fetched by this run
  rows,         \* member records built by this run
  idx,          \* position of the write loop in rows
  created,      \* counters of the run
  updated,
  failed,
  existing,     \* result of the lookup query for the current row
  properties,   \* properties built for the current row
  pageId,       \* page the update is keyed by (0: none)
  result,       \* result of the update or create for the current row
  i,            \* withRetry's loop variable
  invocations,  \* calls of fn() made by the current withRetry
  waited,       \* the last delay(ms) slept by the current withRetry
  mail,         \* Mailgun requests made by this run
  lastRun,      \* history: how the previous run ended
  rerun,        \* history: this run fetched the CSV of a previous clean run
  creates,      \* history: pages.create calls of this run that succeeded
  updates,      \* history: pages.update calls of this run that succeeded
  raw,          \* argument of the function applied on its own (a string)
  out,          \* what the function returned for raw
  runs          \* overlapping invocations of sync: where each of them is

vars ==
  << pc, pages, propertyMap, csv, rows, idx, created, updated, failed,
     existing, properties, pageId, result, i, invocations, waited, mail,
     lastRun, rerun, creates, updates, raw, out, runs >>

\* a property the request does not carry
Absent == << "absent" >>

NoProperties == [id |-> Absent, name |-> Absent, phone |-> Absent]

Unset == [kind |-> "unset", results |-> << >>]

Null == [kind |-> "null", results |-> << >>]

NoRun == [csv |-> << >>, clean |-> FALSE]

\* invocations of sync that may be alive together
MaxRuns == 2

\* an invocation of sync that has not been made
NotRunning == [at |-> "idle", left |-> 0, tries |-> 0]

NoRuns == [r \in 1..MaxRuns |-> NotRunning]

\* the locals of sync before its first invocation
Boot ==
  /\ pc = "boot"
  /\ propertyMap = [phone |-> FALSE]
  /\ csv = << >>
  /\ rows = << >>
  /\ idx = 1
  /\ created = 0
  /\ updated = 0
  /\ failed = 0
  /\ existing = Unset
  /\ properties = NoProperties
  /\ pageId = 0
  /\ result = "unset"
  /\ i = 0
  /\ invocations = 0
  /\ waited = 0
  /\ mail = << >>
  /\ lastRun = NoRun
  /\ rerun = FALSE
  /\ creates = 0
  /\ updates = 0

Init ==
  /\ Boot
  /\ pages \in InitialStores
  /\ raw = << >>
  /\ out = << >>
  /\ runs = NoRuns

(***************************************************************************)
(* withRetry (lines 179-189): for (i = 0; i < 5; i++) try fn(), on a throw *)
(* log and delay(1000 * (i + 1)); after the loop log and return null.      *)
(***************************************************************************)
MaxAttempts == 5

\* a withRetry that sleeps one second after every failure, whatever the attempt
FlatBackoff(k) == 1000

Backoff(k) == 1000 * (k + 1)

RetryPcs == {"lookup", "update", "create"}

\* where sync continues when the withRetry it awaits returns
Continuation(at) == IF at = "lookup" THEN "dispatch" ELSE "afterWrite"

(***************************************************************************)
(* The remote database (Notion) as the service uses it.                    *)
(***************************************************************************)
\* databases.query filtered on "Member ID" equals id, page_size 1: the ids of
\* at most one matching page; which one of several matches is not specified
QueryResults(id) ==
  LET hits == {h \in 1..Len(pages) : pages[h].id = id}
  IN  IF hits = {} THEN {<< >>} ELSE {<< h >> : h \in hits}

\* pages.update: the properties sent replace the page's, the others stay
UpdatedPage(page, props) ==
  [ id    |-> IF props.id = Absent THEN page.id ELSE props.id,
    name  |-> IF props.name = Absent THEN page.name ELSE props.name,
    phone |-> IF props.phone = Absent THEN page.phone ELSE props.phone ]

\* pages.create: a property that is not sent is empty in the new page
CreatedPage(props) == UpdatedPage([id |-> << >>, name |-> << >>, phone |-> << >>], props)

(***************************************************************************)
(* sync                                                                    *)
(***************************************************************************)
\* a new invocation of sync: every local of the run starts afresh
SyncBegin ==
  /\ pc' = "checkProps"
  /\ propertyMap' = [phone |-> FALSE]
  /\ csv' = << >>
  /\ rows' = << >>
  /\ idx' = 1
  /\ created' = 0
  /\ updated' = 0
  /\ failed' = 0
  /\ existing' = Unset
  /\ properties' = NoProperties
  /\ pageId' = 0
  /\ result' = "unset"
  /\ i' = 0
  /\ invocations' = 0
  /\ waited' = 0
  /\ mail' = << >>
  /\ rerun' = FALSE
  /\ UNCHANGED << pages, lastRun >>
  /\ creates' = 0
  /\ updates' = 0
  /\ UNCHANGED << raw, out, runs >>

\* line 572: sync() as the process starts
Start ==
  /\ pc = "boot"
  /\ SyncBegin

\* line 573: setInterval(sync, 24 h); a run is taken to end within the day
TimerTick ==
  /\ pc \in {"completed", "fatal"}
  /\ SyncBegin

\* a sync without its catch: the error leaves sync as a rejected promise
Uncaught == "crashed"

\* the catch of sync (lines 564-567): the error is logged, sync returns
CatchFatal == "fatal"

\* lines 298-318: checkNotionProperties and the property mapping
CheckNotionProperties ==
  /\ pc = "checkProps"
  /\ \E outcome \in {"error", "noName", "nameOnly", "nameAndPhone"} :
       IF outcome \in {"error", "noName"}
       THEN /\ pc' = CatchFatal
            /\ lastRun' = NoRun
            /\ UNCHANGED propertyMap
       ELSE /\ pc' = "fetch"
            /\ propertyMap' = [phone |-> outcome = "nameAndPhone"]
            /\ UNCHANGED lastRun
  /\ UNCHANGED << pages, csv, rows, idx, created, updated, failed, existing,
                  properties, pageId, result, i, invocations, waited, mail, rerun >>
  /\ UNCHANGED << creates, updates, raw, out, runs >>

\* what the GET of the published sheet can answer: an error status, or a
\* text, given here with what parseCSV (line 329) and the record builder
\* (lines 334-400) compute from it
Responses ==
  {[ok |-> FALSE, text |-> << >>, data |-> << >>, rows |-> << >>]}
    \cup {[ok |-> TRUE, text |-> t, data |-> parseCSV(t), rows |-> BuildRows(parseCSV(t))] :
            t \in CsvTexts}

\* lines 320-427: fetch, parse, map the columns, build the records
FetchCSV ==
  /\ pc = "fetch"
  /\ \E res \in Responses :
       IF ~res.ok \/ Len(res.data) <= 1
       THEN /\ pc' = CatchFatal
            /\ UNCHANGED << csv, rows, rerun >>
       ELSE /\ csv' = res.text
            /\ rows' = res.rows
            /\ rerun' = (lastRun.clean /\ lastRun.csv = res.text)
            /\ pc' = IF rows' = << >> THEN "export" ELSE "lookup"
  /\ lastRun' = NoRun
  /\ UNCHANGED << pages, propertyMap, idx, created, updated, failed, existing,
                  properties, pageId, result, i, invocations, waited, mail >>
  /\ UNCHANGED << creates, updates, raw, out, runs >>

\* lines 441-448: the lookup query answers
QuerySucceeds ==
  /\ pc = "lookup"
  /\ i < MaxAttempts
  /\ \E found \in QueryResults(rows[idx].id) :
       existing' = [kind |-> "list", results |-> found]
  /\ invocations' = invocations + 1
  /\ pc' = Continuation(pc)
  /\ UNCHANGED << pages, propertyMap, csv, rows, idx, created, updated, failed,
                  properties, pageId, result, i, waited, mail, lastRun, rerun >>
  /\ UNCHANGED << creates, updates, raw, out, runs >>

\* lines 182-185: fn() throws; log, wait, next turn of the loop
WithRetryFails ==
  /\ pc \in RetryPcs
  /\ i < MaxAttempts
  /\ invocations' = invocations + 1
  /\ waited' = Backoff(i)
  /\ i' = i + 1
  /\ UNCHANGED << pc, pages, propertyMap, csv, rows, idx, created, updated, failed,
                  existing, properties, pageId, result, mail, lastRun, rerun >>
  /\ UNCHANGED << creates, updates, raw, out, runs >>

\* a withRetry without a bound: after the fifth failure it starts over
WithRetryStartsOver ==
  /\ pc \in RetryPcs
  /\ i >= MaxAttempts
  /\ i' = 0
  /\ invocations' = 0
  /\ waited' = 0
  /\ UNCHANGED << pc, pages, propertyMap, csv, rows, idx, created, updated, failed,
                  existing, properties, pageId, result, mail, lastRun, rerun,
                  creates, updates, raw, out, runs >>

\* lines 187-188: the loop is over; log and return null
WithRetryReturnsNull ==
  /\ pc \in RetryPcs
  /\ i >= MaxAttempts
  /\ IF pc = "lookup"
     THEN existing' = Null /\ UNCHANGED result
     ELSE result' = "null" /\ UNCHANGED existing
  /\ pc' = Continuation(pc)
  /\ UNCHANGED << pages, propertyMap, csv, rows, idx, created, updated, failed,
                  properties, pageId, i, invocations, waited, mail, lastRun, rerun >>
  /\ UNCHANGED << creates, updates, raw, out, runs >>

\* lines 451-467
BuildProperties(row) ==
  [ id    |-> row.id,
    name  |-> row.name,
    phone |-> IF propertyMap.phone /\ row.phone # << >> THEN row.phone ELSE Absent ]

\* line 470: existing && existing.results.length > 0
Found(e) == e.kind = "list" /\ Len(e.results) > 0

\* lines 450-473, 483: build the properties, choose update or create
Dispatch ==
  /\ pc = "dispatch"
  /\ properties' = BuildProperties(rows[idx])
  /\ IF Found(existing)
     THEN pageId' = existing.results[1] /\ pc' = "update"
     ELSE pageId' = 0 /\ pc' = "create"
  /\ i' = 0
  /\ invocations' = 0
  /\ waited' = 0
  /\ UNCHANGED << pages, propertyMap, csv, rows, idx, created, updated, failed,
                  existing, result, mail, lastRun, rerun >>
  /\ UNCHANGED << creates, updates, raw, out, runs >>

\* lines 473-476: pages.update answers
UpdateSucceeds ==
  /\ pc = "update"
  /\ i < MaxAttempts
  /\ pages' = [pages EXCEPT ![pageId] = UpdatedPage(@, properties)]
  /\ result' = "page"
  /\ invocations' = invocations + 1
  /\ pc' = Continuation(pc)
  /\ UNCHANGED << propertyMap, csv, rows, idx, created, updated, failed, existing,
                  properties, pageId, i, waited, mail, lastRun, rerun >>
  /\ updates' = updates + 1
  /\ UNCHANGED << creates, raw, out, runs >>

\* lines 483-486: pages.create answers
CreateSucceeds ==
  /\ pc = "create"
  /\ i < MaxAttempts
  /\ Len(pages) < MaxPages
  /\ pages' = Append(pages, CreatedPage(properties))
  /\ result' = "page"
  /\ invocations' = invocations + 1
  /\ pc' = Continuation(pc)
  /\ UNCHANGED << propertyMap, csv, rows, idx, created, updated, failed, existing,
                  properties, pageId, i, waited, mail, lastRun, rerun >>
  /\ creates' = creates + 1
  /\ UNCHANGED << updates, raw, out, runs >>

\* a loop body that counts a failed row only in its catch (lines 500-503),
\* which no call of the body can reach
RowFinishCountsInCatch ==
  /\ pc = "afterWrite"
  /\ updated' = IF result # "null" /\ Found(existing) THEN updated + 1 ELSE updated
  /\ created' = IF result # "null" /\ ~Found(existing) THEN created + 1 ELSE created
  /\ failed' = failed
  /\ idx' = idx + 1
  /\ pc' = IF idx + 1 > Len(rows) THEN "export" ELSE "lookup"
  /\ existing' = Unset
  /\ properties' = NoProperties
  /\ pageId' = 0
  /\ result' = "unset"
  /\ i' = 0
  /\ invocations' = 0
  /\ waited' = 0
  /\ UNCHANGED << pages, propertyMap, csv, rows, mail, lastRun, rerun >>
  /\ UNCHANGED << creates, updates, raw, out, runs >>

\* lines 477-481, 487-498: count the row, delay(400), go to the next row.
\* The pause between batches of 30 rows only adds a delay.
RowFinish ==
  /\ pc = "afterWrite"
  /\ updated' = IF result # "null" /\ Found(existing) THEN updated + 1 ELSE updated
  /\ created' = IF result # "null" /\ ~Found(existing) THEN created + 1 ELSE created
  /\ failed' = IF result = "null" THEN failed + 1 ELSE failed
  /\ idx' = idx + 1
  /\ pc' = IF idx + 1 > Len(rows) THEN "export" ELSE "lookup"
  /\ existing' = Unset
  /\ properties' = NoProperties
  /\ pageId' = 0
  /\ result' = "unset"
  /\ i' = 0
  /\ invocations' = 0
  /\ waited' = 0
  /\ UNCHANGED << pages, propertyMap, csv, rows, mail, lastRun, rerun >>
  /\ UNCHANGED << creates, updates, raw, out, runs >>

\* an export that does not filter the records on their phone
AnyRecord(row) == TRUE

HasPhone(row) == row.phone # << >>

\* lines 525-527: one card per record, in the order of the records
Cards(records) == [k \in 1..Len(records) |-> [FN |-> records[k].name, TEL |-> records[k].phone]]

\* how a run that reaches line 561 is remembered
Completed == [csv |-> csv, clean |-> failed = 0]

\* lines 512-545, 555-562: report, then mail the contacts if there are any
\* and MAILGUN_KEY is set
Export ==
  /\ pc = "export"
  /\ \E key \in BOOLEAN :
       LET withPhone == SelectSeq(rows, HasPhone)
       IN  IF Len(withPhone) > 0 /\ key
           THEN /\ mail' = Append(mail, [ subject    |-> Len(withPhone),
                                          attachment |-> Cards(withPhone),
                                          status     |-> "sent" ])
                /\ pc' = "mail"
                /\ UNCHANGED lastRun
           ELSE /\ pc' = "completed"
                /\ lastRun' = Completed
                /\ UNCHANGED mail
  /\ UNCHANGED << pages, propertyMap, csv, rows, idx, created, updated, failed,
                  existing, properties, pageId, result, i, invocations, waited, rerun >>
  /\ UNCHANGED << creates, updates, raw, out, runs >>

\* a Mailgun call under the outer catch only (as in lines 121-148): a throw
\* of the transport ends the run in the catch of sync
AfterMailUncaught(outcome) == IF outcome = "throws" THEN "fatal" ELSE "completed"

\* where sync is after the try/catch around the Mailgun call
AfterMail(outcome) == "completed"

\* lines 547-562: the Mailgun call answers 2xx, answers an error, or throws
MailResponse ==
  /\ pc = "mail"
  /\ \E outcome \in {"ok", "notOk", "throws"} :
       /\ mail' = [mail EXCEPT ![Len(mail)].status = outcome]
       /\ pc' = AfterMail(outcome)
  /\ lastRun' = Completed
  /\ UNCHANGED << pages, propertyMap, csv, rows, idx, created, updated, failed,
                  existing, properties, pageId, result, i, invocations, waited, rerun >>
  /\ UNCHANGED << creates, updates, raw, out, runs >>

Next ==
  \/ Start
  \/ TimerTick
  \/ CheckNotionProperties
  \/ FetchCSV
  \/ QuerySucceeds
  \/ WithRetryFails
  \/ WithRetryReturnsNull
  \/ Dispatch
  \/ UpdateSucceeds
  \/ CreateSucceeds
  \/ RowFinish
  \/ Export
  \/ MailResponse

Spec == Init /\ [][Next]_vars

\* the steps of a run: each is the return or the failure of the call, the
\* fetch or the delay the run is awaiting
RunStep ==
  \/ Start
  \/ CheckNotionProperties
  \/ FetchCSV
  \/ QuerySucceeds
  \/ WithRetryFails
  \/ WithRetryReturnsNull
  \/ Dispatch
  \/ UpdateSucceeds
  \/ CreateSucceeds
  \/ RowFinish
  \/ Export
  \/ MailResponse

\* every awaited call, fetch and delay eventually returns or fails
FairSpec == Spec /\ WF_vars(RunStep)

(***************************************************************************)
(* cleanPhoneNumber applied on its own to raw strings.                     *)
(***************************************************************************)
MaxDigits == 14

\* the digits 1234567890123... up to length n
DigitRun(n) == [k \in 1..n |-> DigitChar(k % 10)]

\* body with the characters of extra put after its first two characters
Interleave(body, extra) ==
  IF Len(body) < 2 THEN body \o extra
  ELSE SubSeq(body, 1, 2) \o extra \o SubSeq(body, 3, Len(body))

PhonePrefixes ==
  { << >>, << "0" >>, << "6", "2" >>, << "8" >>, << "+", "6", "2" >>, << "+" >>,
    << "+", "0" >>, << "+", "8" >>, << "1" >>, << " ", "0" >> }

PhoneExtras == { << >>, << "-" >>, << " " >>, << "+" >>, << "a" >> }

PhoneInputs ==
  { p \o Interleave(DigitRun(n), x) :
      p \in PhonePrefixes, n \in 0..MaxDigits, x \in PhoneExtras }
    \cup { << " ", " " >>, << "a", "b", "c" >> }

PhoneInit ==
  /\ Boot
  /\ pages = << >>
  /\ raw \in PhoneInputs
  /\ out = << >>
  /\ runs = NoRuns

\* line 384: phone = cleanPhoneNumber(phoneRaw)
CleanPhone ==
  /\ pc = "boot"
  /\ out' = cleanPhoneNumber(raw)
  /\ pc' = "cleaned"
  /\ UNCHANGED << pages, propertyMap, csv, rows, idx, created, updated, failed,
                  existing, properties, pageId, result, i, invocations, waited,
                  mail, lastRun, rerun, creates, updates, raw, runs >>

PhoneNext == CleanPhone

PhoneSpec == PhoneInit /\ [][PhoneNext]_vars

(***************************************************************************)
(* The line parser of parseCSV applied on its own to lines.                *)
(***************************************************************************)
MaxLineLen == 5

LineAlphabet == {"a", ",", "\"", " "}

\* a,"b,c",d
QuotedComma == << "a", ",", "\"", "b", ",", "c", "\"", ",", "d" >>

\* "He ""hi"""
DoubledQuotes == << "\"", "H", "e", " ", "\"", "\"", "h", "i", "\"", "\"", "\"" >>

LineInputs ==
  UNION {[1..n -> LineAlphabet] : n \in 0..MaxLineLen} \cup {QuotedComma, DoubledQuotes}

LineInit ==
  /\ Boot
  /\ pages = << >>
  /\ raw \in LineInputs
  /\ out = << >>
  /\ runs = NoRuns

\* lines 217-241: the fields of one line
ParseOneLine ==
  /\ pc = "boot"
  /\ out' = parseCSVLine(raw)
  /\ pc' = "parsed"
  /\ UNCHANGED << pages, propertyMap, csv, rows, idx, created, updated, failed,
                  existing, properties, pageId, result, i, invocations, waited,
                  mail, lastRun, rerun, creates, updates, raw, runs >>

LineNext == ParseOneLine

LineSpec == LineInit /\ [][LineNext]_vars

(***************************************************************************)
(* Invocations of sync alive together.  setInterval (line 573) calls sync  *)
(* every 24 hours whether or not the invocation before has returned; no    *)
(* call of sync has a timeout of its own, and a run lasts at least 400 ms  *)
(* per record.  Each invocation is followed through its awaits: at is the  *)
(* await it is suspended on, left the records still to write, tries the    *)
(* loop variable of its withRetry.                                         *)
(***************************************************************************)
\* awaits on a request to the remote database made under withRetry
StoreCalls == {"query", "update", "create"}

\* the delay(1000 * (i + 1)) that follows a failure of such a request
WaitOf(call) ==
  CASE call = "query"  -> "queryWait"
    [] call = "update" -> "updateWait"
    [] call = "create" -> "createWait"

CallOf(wait) ==
  CASE wait = "queryWait"  -> "query"
    [] wait = "updateWait" -> "update"
    [] wait = "createWait" -> "create"

StoreWaits == {WaitOf(call) : call \in StoreCalls}

\* the variables of the single run followed by Spec, and raw, out
single ==
  << pc, pages, propertyMap, csv, rows, idx, created, updated, failed,
     existing, properties, pageId, result, i, invocations, waited, mail,
     lastRun, rerun, creates, updates, raw, out >>

OverlapInit ==
  /\ Boot
  /\ pages = << >>
  /\ raw = << >>
  /\ out = << >>
  /\ runs = NoRuns

\* lines 572-573: sync() at the start, then sync again at each tick; nothing
\* is tested about the invocations made before
Invoke(r) ==
  /\ runs[r].at = "idle"
  /\ r > 1 => runs[r - 1].at # "idle"
  /\ runs' = [runs EXCEPT ![r].at = "props"]
  /\ UNCHANGED single

\* lines 298-318: databases.retrieve answers; the invocation goes on to the
\* fetch, or throws and ends in its catch
PropsAnswer(r) ==
  /\ runs[r].at = "props"
  /\ \E ok \in BOOLEAN :
       runs' = [runs EXCEPT ![r].at = IF ok THEN "fetch" ELSE "done"]
  /\ UNCHANGED single

\* lines 323-431: the GET of the sheet answers; n records are built; the
\* invocation throws (no data), skips the loop (no record) or makes the
\* lookup of the first record
FetchAnswer(r) ==
  /\ runs[r].at = "fetch"
  /\ \E ok \in BOOLEAN, n \in 0..MaxRows :
       runs' = [runs EXCEPT ![r] =
                  IF ~ok \/ n = 0 THEN [at |-> "done", left |-> 0, tries |-> 0]
                  ELSE [at |-> "query", left |-> n, tries |-> 0]]
  /\ UNCHANGED single

\* line 181: the request answers; after the query the update or the create
\* is made at once (lines 470-486), after those the delay(400) of line 498
CallAnswers(r) ==
  /\ runs[r].at \in StoreCalls
  /\ \E next \in (IF runs[r].at = "query" THEN {"update", "create"} ELSE {"pause"}) :
       runs' = [runs EXCEPT ![r].at = next, ![r].tries = 0]
  /\ UNCHANGED single

\* lines 182-185: the request throws; withRetry sleeps
CallThrows(r) ==
  /\ runs[r].at \in StoreCalls
  /\ runs' = [runs EXCEPT ![r].at = WaitOf(@), ![r].tries = @ + 1]
  /\ UNCHANGED single

\* lines 180-188: the sleep is over; the request is made again, or after
\* the fifth failure withRetry returns null: a null lookup goes on to the
\* create, a null update or create to the delay(400)
WaitOver(r) ==
  /\ runs[r].at \in StoreWaits
  /\ runs' = [runs EXCEPT ![r] =
                IF @.tries < MaxAttempts
                THEN [@ EXCEPT !.at = CallOf(@)]
                ELSE [@ EXCEPT !.at = IF @ = "queryWait" THEN "create" ELSE "pause",
                               !.tries = 0]]
  /\ UNCHANGED single

\* lines 498-559: the delay(400) is over; the lookup of the next record is
\* made, or after the last record the Mailgun request, or none
PauseOver(r) ==
  /\ runs[r].at = "pause"
  /\ \E send \in BOOLEAN :
       runs' = [runs EXCEPT ![r] =
                  IF @.left > 1 THEN [@ EXCEPT !.at = "query", !.left = @ - 1]
                  ELSE [@ EXCEPT !.at = IF send THEN "mail" ELSE "done", !.left = 0]]
  /\ UNCHANGED single

\* lines 539-562: the Mailgun request answers or throws; sync returns
MailAnswers(r) ==
  /\ runs[r].at = "mail"
  /\ runs' = [runs EXCEPT ![r].at = "done"]
  /\ UNCHANGED single

OverlapNext ==
  \E r \in 1..MaxRuns :
    \/ Invoke(r)
    \/ PropsAnswer(r)
    \/ FetchAnswer(r)
    \/ CallAnswers(r)
    \/ CallThrows(r)
    \/ WaitOver(r)
    \/ PauseOver(r)
    \/ MailAnswers(r)

OverlapSpec == OverlapInit /\ [][OverlapNext]_vars

(***************************************************************************)
(* Properties.                                                             *)
(***************************************************************************)
\* the remote pages whose "Member ID" is id
Holders(id) == {h \in 1..Len(pages) : pages[h].id = id}

\* C1: while an update is issued for a row, it is keyed by a remote page that
\* holds the row's id; while a create is issued for a row, no remote page
\* holds the row's id.
C1_UpdateIffRemoteHoldsId ==
  /\ pc = "update" => pageId \in Holders(rows[idx].id)
  /\ pc = "create" => Holders(rows[idx].id) = {}

\* C1, the half the code keeps: an update is always keyed by a page that
\* holds the row's id, and a create after an answered lookup finds no holder.
C1_AnsweredLookupIsFollowed ==
  /\ pc = "update" => pageId \in Holders(rows[idx].id)
  /\ (pc = "create" /\ existing # Null) => Holders(rows[idx].id) = {}

\* a row whose id the store holds is about to be created again
C1_CreateOfHeldId ==
  /\ pc = "create"
  /\ Holders(rows[idx].id) # {}

\* C2: a run that fetches the CSV of the run before it, which completed with
\* no failed row, issues no create: every row resolves to an update.
C2_SecondRunIssuesNoCreate == rerun => pc # "create"

\* C3: a row for which a remote call (lookup, update or create) was abandoned
\* after 5 failures is counted as failed, and the loop goes on to the next
\* row or, after the last row, to the report.
C3_AbandonedCallCountsFailed ==
  [][ (pc = "afterWrite" /\ (existing = Null \/ result = "null"))
        => /\ failed' = failed + 1
           /\ idx' = idx + 1
           /\ pc' = IF idx + 1 > Len(rows) THEN "export" ELSE "lookup" ]_vars

\* C4: withRetry invokes the operation at most 5 times; while it loops, every
\* invocation so far has failed and the wait after the k-th failure was
\* 1000 ms x k; when it has returned a result, that was the one invocation
\* after the failures; when it has returned null, 5 invocations failed, the
\* last wait was 5000 ms and there was no sixth invocation.
C4_RetryPolicy ==
  /\ invocations <= 5
  /\ pc \in RetryPcs =>
       /\ invocations = i
       /\ i > 0 => waited = 1000 * i
  /\ pc \in {"dispatch", "afterWrite"} =>
       IF (pc = "dispatch" /\ existing = Null) \/ (pc = "afterWrite" /\ result = "null")
       THEN invocations = 5 /\ i = 5 /\ waited = 5000
       ELSE /\ invocations = i + 1
            /\ i > 0 => waited = 1000 * i

\* an update or create given up after five failures, the fifth wait done
C4_Exhausted ==
  /\ pc = "afterWrite"
  /\ result = "null"
  /\ invocations = 5
  /\ waited = 5000

\* C5: when the lookup query of a row is abandoned after its retries, the run
\* ends as a fatal error and issues no further create or update.
C5_AbandonedLookupIsFatal ==
  [][ (pc = "dispatch" /\ existing = Null) => pc' = "fatal" ]_vars

\* C6: when the database has a phone property, every update or create sent
\* for a row carries the phone explicitly: the row's phone, empty (a clear)
\* when the row has none; so a successful update of a row without phone
\* leaves the remote page without phone.
C6_PhoneIsExplicit ==
  /\ (pc \in {"update", "create"} /\ propertyMap.phone) =>
       properties.phone = rows[idx].phone
  /\ (pc = "afterWrite" /\ result = "page" /\ pageId # 0 /\ propertyMap.phone) =>
       pages[pageId].phone = rows[idx].phone

\* a row without phone has been updated and the page still holds a phone
C6_StalePhone ==
  /\ pc = "afterWrite"
  /\ result = "page"
  /\ pageId # 0
  /\ propertyMap.phone
  /\ rows[idx].phone = << >>
  /\ pages[pageId].phone # << >>

\* the cells of the identifier column in the body rows of a parsed CSV
IdCells(data) ==
  LET col == ColumnMapping(data[1])
  IN  IF col.id = -1 THEN {}
      ELSE {Cell(data[n], col.id) : n \in 2..Len(data)}

\* C7: every record of the run has a non-empty id that is the identifier
\* cell of a body row of the fetched CSV: a row with an empty identifier
\* cell gives no record.
C7_EmptyIdGivesNoRecord ==
  \A res \in Responses :
    (res.ok /\ res.text = csv) =>
      \A k \in 1..Len(rows) :
        /\ rows[k].id # << >>
        /\ rows[k].id \in IdCells(res.data)

\* C8: a mail request carries one card for each record with a phone and none
\* for a record without, in the order of the records; its subject counts
\* the cards; a run none of whose records has a phone makes no request.
C8_ExportedCards ==
  LET phoned == {k \in 1..Len(rows) : rows[k].phone # << >>}
      rank(k) == Cardinality({h \in phoned : h <= k})
  IN  /\ phoned = {} => mail = << >>
      /\ \A m \in 1..Len(mail) :
           /\ Len(mail[m].attachment) = Cardinality(phoned)
           /\ mail[m].subject = Len(mail[m].attachment)
           /\ \A k \in phoned :
                mail[m].attachment[rank(k)] = [FN |-> rows[k].name, TEL |-> rows[k].phone]

\* a request was made by a run that has a record with and a record without phone
C8_MixedExport ==
  /\ mail # << >>
  /\ Len(mail[1].attachment) = 1
  /\ Len(rows) = 2
  /\ rows[1].phone = << >>

\* C9: a run makes at most one mail request; when the request throws or is
\* answered with an error, the run still ends as completed, no further
\* request is made, and the counters and the database stay as they were.
C9_MailFailureIsCaught ==
  [][ /\ Len(mail') <= 1
      /\ pc = "mail" =>
           /\ pc' = "completed"
           /\ Len(mail') = Len(mail)
           /\ << created, updated, failed, pages >>' = << created, updated, failed, pages >>
    ]_vars

\* a run that reconciled a row has completed although its mail request threw
C9_CompletedAfterThrow ==
  /\ pc = "completed"
  /\ mail # << >>
  /\ mail[1].status = "throws"
  /\ created + updated + failed > 0

\* C10: the process starts a run at once; a run never ends outside sync (an
\* error is caught there); when a run has ended, as completed or as fatal,
\* the next tick is taken and starts a run with an empty record set, zero
\* counters and no mail request.
C10_NextTickStartsAfresh ==
  /\ [](pc \in {"completed", "fatal"} => ENABLED TimerTick)
  /\ [][ /\ pc' # "crashed"
         /\ pc = "boot" => pc' = "checkProps"
         /\ pc \in {"completed", "fatal"} =>
              /\ pc' = "checkProps"
              /\ rows' = << >> /\ csv' = << >> /\ idx' = 1
              /\ created' = 0 /\ updated' = 0 /\ failed' = 0
              /\ mail' = << >>
              /\ pages' = pages
       ]_vars

\* a run starts after a run that ended as fatal, the database filled by
\* earlier runs
C10_RunAfterFatal ==
  /\ pc = "checkProps"
  /\ pages # << >>
  /\ lastRun = NoRun
  /\ Len(pages) = MaxPages

\* '+62' followed by 8 to 13 digits
Canonical(s) ==
  /\ Len(s) \in 11..16
  /\ SubSeq(s, 1, 3) = << "+", "6", "2" >>
  /\ \A k \in 4..Len(s) : s[k] \in Digits

\* step 1 of the rule: the digits of s, after a '+' when the first character
\* of s that is a digit or a '+' is a '+'
LeadingPlusAndDigits(s) ==
  LET marks == {k \in 1..Len(s) : s[k] \in Digits \cup {"+"}}
      first == CHOOSE k \in marks : \A h \in marks : k <= h
      IsDigit(c) == c \in Digits
  IN  IF marks = {} THEN << >>
      ELSE (IF s[first] = "+" THEN << "+" >> ELSE << >>) \o SelectSeq(s, IsDigit)

\* the six steps of the rule
RuleOfSixSteps(s) ==
  LET t1 == LeadingPlusAndDigits(s)
      t4 == IF t1 # << >> /\ t1[1] = "0" THEN << "+", "6", "2" >> \o Tail(t1)
            ELSE IF Len(t1) >= 2 /\ SubSeq(t1, 1, 2) = << "6", "2" >> THEN << "+" >> \o t1
            ELSE IF t1 # << >> /\ t1[1] = "8" THEN << "+", "6", "2" >> \o t1
            ELSE t1
      t5 == << "+", "6", "2" >> \o t4
  IN  IF Canonical(t4) THEN t4
      ELSE IF Len(t4) \in 10..13 /\ t4[1] # "+" /\ Canonical(t5) THEN t5
      ELSE << >>

\* C11: for every raw string cleanPhoneNumber returns what the six-step rule
\* gives, and that is empty or '+62' followed by 8 to 13 digits.
C11_NormalizerFollowsRule ==
  pc = "cleaned" =>
    /\ out = RuleOfSixSteps(raw)
    /\ out = << >> \/ Canonical(out)

\* C11, the part the code keeps: the result is empty or canonical, and it is
\* what the rule gives for every raw string with no '+' after its first
\* digit or '+'.
C11_ResultIsEmptyOrCanonical ==
  pc = "cleaned" =>
    /\ out = << >> \/ Canonical(out)
    /\ KeepDigitsPlus(raw) = LeadingPlusAndDigits(raw) => out = RuleOfSixSteps(raw)

\* a raw string with a '+' among its digits has been cleaned to empty while
\* the rule gives it a number
C11_InnerPlusDropsNumber ==
  /\ pc = "cleaned"
  /\ out = << >>
  /\ RuleOfSixSteps(raw) # << >>

\* what each character of a line is, read from the left: quoted[k] says that
\* character k lies in a quoted region, second[k] that it is the second
\* quote of a doubled quote
Regions(line) ==
  LET n == Len(line)
      st[k \in 0..n] ==
        IF k = 0 THEN [quoted |-> FALSE, second |-> FALSE, after |-> FALSE]
        ELSE LET before == st[k - 1].after
             IN  IF k > 1 /\ line[k - 1] = "\"" /\ st[k - 1].quoted
                    /\ ~st[k - 1].second /\ line[k] = "\""
                 THEN [quoted |-> TRUE, second |-> TRUE, after |-> TRUE]
                 ELSE IF line[k] = "\""
                      THEN IF before /\ k < n /\ line[k + 1] = "\""
                           THEN [quoted |-> TRUE, second |-> FALSE, after |-> TRUE]
                           ELSE [quoted |-> before, second |-> FALSE, after |-> ~before]
                      ELSE [quoted |-> before, second |-> FALSE, after |-> before]
  IN  st

\* the fields of a line by the statement of the parser: cut at the commas
\* outside quoted regions; in each piece drop the delimiting quotes, keep one
\* quote of each doubled quote inside quotes; trim
FieldsByRegions(line) ==
  LET n == Len(line)
      st == Regions(line)
      cuts == {k \in 1..n : line[k] = "," /\ ~st[k].quoted}
      cut(j) == IF j = 0 THEN 0
                ELSE IF j > Cardinality(cuts) THEN n + 1
                ELSE CHOOSE k \in cuts : Cardinality({h \in cuts : h <= k}) = j
      kept(k) == line[k] # "\"" \/ (st[k].quoted /\ st[k].second)
      piece(j) ==
        LET ks == {k \in (cut(j - 1) + 1)..(cut(j) - 1) : kept(k)}
            at(m) == CHOOSE k \in ks : Cardinality({h \in ks : h <= k}) = m
        IN  [m \in 1..Cardinality(ks) |-> line[at(m)]]
  IN  [j \in 1..(Cardinality(cuts) + 1) |-> trim(piece(j))]

\* C12: the fields the parser returns for a line are the pieces of the line
\* between the commas outside quoted regions, without the delimiting quotes,
\* with one quote for each doubled quote inside quotes, each trimmed; an
\* unterminated quote keeps the rest of the line in the last field.
C12_ParserSplitsOutsideQuotes ==
  pc = "parsed" => out = FieldsByRegions(raw)

\* a,"b,c",d has been parsed into a / b,c / d
C12_QuotedCommaKept ==
  /\ pc = "parsed"
  /\ raw = QuotedComma
  /\ out = << << "a" >>, << "b", ",", "c" >>, << "d" >> >>

\* the invocations of sync that have a request to the remote database in flight
InFlight == {r \in 1..MaxRuns : runs[r].at \in StoreCalls}

\* C13: at most one request to the remote database (query, update or create)
\* is in flight, also when a tick has called sync before the invocation
\* before it has returned.
C13_OneRequestInFlight == Cardinality(InFlight) <= 1

\* two invocations of sync have a request in flight together
C13_TwoInFlight ==
  /\ runs[1].at = "update"
  /\ runs[2].at = "query"

\* C14: when every awaited call eventually returns or fails, a started run
\* eventually reaches its normal end or the catch of sync.
C14_RunTerminates ==
  (pc \notin {"boot", "completed", "fatal"}) ~> (pc \in {"completed", "fatal"})

\* a run has ended normally although the write of every row was given up
\* after its retries
C14_EndedAfterRetries ==
  /\ pc = "completed"
  /\ failed = Len(rows)
  /\ Len(rows) = MaxRows

\* C15: between two rows the three counters add up to the number of rows
\* gone through, each row adding one to exactly one counter; at the end of
\* the run they add up to the number of records; created and updated are
\* the numbers of pages.create and pages.update calls that succeeded.
C15_CountersAccount ==
  /\ [](/\ pc \in {"lookup", "dispatch", "update", "create", "afterWrite"} =>
             created + updated + failed = idx - 1
        /\ pc \in {"export", "mail", "completed"} =>
             /\ created + updated + failed = Len(rows)
             /\ created = creates
             /\ updated = updates)
  /\ [][pc = "afterWrite" =>
          (created' + updated' + failed') - (created + updated + failed) = 1]_vars

\* a run has ended with a row created, a row failed and none updated
C15_CreatedAndFailed ==
  /\ pc = "completed"
  /\ created = 1
  /\ failed = 1
  /\ creates = 1
  /\ Len(rows) = 2

\* C16: the remote database, which starts with no two pages of one Member
\* ID, never holds two pages of one Member ID.
C16_IdsStayUnique ==
  \A h \in 1..Len(pages) : Holders(pages[h].id) = {h}

\* the first run has created a second page for the Member ID of the page the
\* database started with
C16_DuplicateCreated ==
  /\ Len(pages) = 2
  /\ pages[1].id = pages[2].id
  /\ pages[1].phone = << "+", "6", "2", "8", "1", "1", "1", "1", "1", "1", "1", "1" >>
  /\ creates = 1

=============================================================================
